---- MODULE Spec2Model ----
(***************************************************************************)
(* Model of scripts/update_usage.py: main() collects one usage number per  *)
(* provider, stamps the mapping, writes it to public/usage.json and then   *)
(* sends one alert e-mail per integer entry above the threshold.           *)
(*                                                                         *)
(* Python values are modelled with their type: an optional string (the     *)
(* result of os.environ.get) is <<>> for None and <<s>> for the string s;  *)
(* a value of the usage_data dict is a record tagged "int" or "str".       *)
(* A dict is the sequence of its items in insertion order.                 *)
(***************************************************************************)
EXTENDS Integers, Sequences, FiniteSets, TLC

VARIABLES
    pc,          \* position of main: collect, stamp, write, check, done, crashed
    i,           \* index of the provider the collection loop handles next
    keys_read,   \* what os.environ.get returned for each provider handled so far
    usage_data,  \* the dict built by main, as its sequence of items
    file,        \* public/usage.json: the JSON documents its text holds, in order
    written,     \* json.dump of this run has completed
    j,           \* index of the item the threshold loop handles next
    outbox,      \* the calls of send_email_notification so far, with their outcome
    email_env,   \* EMAIL_SENDER, EMAIL_PASSWORD, EMAIL_RECEIVER of the process
    fetch_error, \* <<p>> once fetch_usage has raised for provider p, else <<>>
    prior_file   \* what public/usage.json held when the run started

vars == <<pc, i, keys_read, usage_data, file, written, j, outbox, email_env, fetch_error,
          prior_file>>

---------------------------------------------------------------------------
(* Program constants *)

\* faulty variant: a name repeated in the list
providersDup == <<"openai", "anthropic", "perplexity", "gemini", "gemini">>

providers == <<"openai", "anthropic", "perplexity", "gemini", "huggingface">>

Threshold == 800

RandMax == 1000

---------------------------------------------------------------------------
(* Bounds and input sets *)

\* how many values just above the threshold the stub is sampled at
MaxOver == 1

\* sampled results of random.randint(0, 1000): the minimum, the threshold
\* itself and the values just above it
FetchValues == {v \in 0..RandMax : v = 0 \/ (v >= Threshold /\ v <= Threshold + MaxOver)}

None == <<>>

Some(s) == <<s>>

\* an environment variable is unset, set to the empty string, or set
EnvValues == {None, Some(""), Some("secret")}

MkEmailEnv(s, p, r) == [EMAIL_SENDER |-> s, EMAIL_PASSWORD |-> p, EMAIL_RECEIVER |-> r]

Timestamps == {"2026-11-04T09:00:00.000000"}

---------------------------------------------------------------------------
(* Python values and the dict *)

IntVal(n) == [type |-> "int", int |-> n, str |-> ""]

StrVal(s) == [type |-> "str", int |-> 0, str |-> s]

\* faulty variant: "is not None" in place of the truth value
TruthyNotNone(v) == v # None

\* truth value of an optional string: None and "" are falsy
Truthy(v) == v # None /\ v[1] # ""

Keys(d) == {d[k].key : k \in 1..Len(d)}

\* d[key] = value: replaces the value in place, or appends a new item
DictSet(d, key, value) ==
    IF key \in Keys(d)
    THEN [k \in 1..Len(d) |-> IF d[k].key = key THEN [key |-> key, value |-> value] ELSE d[k]]
    ELSE Append(d, [key |-> key, value |-> value])

\* f"{provider.upper()}_API_KEY"
Upper(s) ==
    CASE s = "openai"      -> "OPENAI"
      [] s = "anthropic"   -> "ANTHROPIC"
      [] s = "perplexity"  -> "PERPLEXITY"
      [] s = "gemini"      -> "GEMINI"
      [] s = "huggingface" -> "HUGGINGFACE"
      [] OTHER             -> s

ApiKeyVar(provider) == <<Upper(provider), "_API_KEY">>

\* the results fetch_usage can return; the stub ignores both arguments
fetch_usage(provider, api_key) == FetchValues

---------------------------------------------------------------------------
(* The output file *)

JsonValue(v) ==
    IF v.type = "int"
    THEN [kind |-> "number", num |-> v.int, text |-> ""]
    ELSE [kind |-> "string", num |-> 0, text |-> v.str]

\* json.dump(usage_data, f, indent=2): one member per item, in order
JsonDump(d) == [k \in 1..Len(d) |-> [name |-> d[k].key, json |-> JsonValue(d[k].value)]]

\* faulty variant: open(output_path, 'a')
OpenAppendWrite(old, doc) == Append(old, doc)

\* open(output_path, 'w') truncates; the dump is then the whole content
OpenTruncateWrite(old, doc) == <<doc>>

\* what an earlier run left behind: no file, or that run's document
OldDocument ==
    JsonDump(<< [key |-> "openai",       value |-> IntVal(Threshold + 1)],
                [key |-> "anthropic",    value |-> IntVal(0)],
                [key |-> "perplexity",   value |-> IntVal(0)],
                [key |-> "gemini",       value |-> IntVal(0)],
                [key |-> "huggingface",  value |-> IntVal(0)],
                [key |-> "last_updated", value |-> StrVal("2026-11-03T09:00:00.000000")] >>)

NoFile == <<>>

\* the surroundings a run starts in: the e-mail variables of the process and
\* the content of public/usage.json (main never reads the file)
Surroundings ==
    { [email |-> MkEmailEnv(Some("a@x.org"), Some("pw"), Some("b@x.org")), file |-> <<OldDocument>>],
      [email |-> MkEmailEnv(None,            Some("pw"), Some("b@x.org")), file |-> NoFile],
      [email |-> MkEmailEnv(Some("a@x.org"), Some(""),   Some("b@x.org")), file |-> <<OldDocument>>],
      [email |-> MkEmailEnv(Some("a@x.org"), Some("pw"), None),            file |-> NoFile],
      [email |-> MkEmailEnv(None,            None,       None),            file |-> <<OldDocument>>],
      [email |-> MkEmailEnv(None,            None,       None),            file |-> NoFile] }

---------------------------------------------------------------------------
(* send_email_notification *)

\* faulty variant: any([...]) in place of all([...])
EmailConfiguredAny(env) ==
    Truthy(env.EMAIL_SENDER) \/ Truthy(env.EMAIL_PASSWORD) \/ Truthy(env.EMAIL_RECEIVER)

\* all([sender_email, sender_password, receiver_email])
EmailConfigured(env) ==
    Truthy(env.EMAIL_SENDER) /\ Truthy(env.EMAIL_PASSWORD) /\ Truthy(env.EMAIL_RECEIVER)

\* what the SMTP session can do: succeed, or raise in SMTP_SSL(), login() or sendmail()
SmtpOutcomes == {"sent", "connect_error", "login_error", "sendmail_error"}

\* faulty variant: a handler for SMTP errors only, which a failed connect escapes
PropagatesConnectError(outcome) == outcome = "connect_error"

\* whether an exception of the try block leaves send_email_notification:
\* "except Exception" catches every one of them
Propagates(outcome) == FALSE

\* one call: the relay is not contacted without configuration, otherwise
\* the session runs to its outcome
send_email_notification(subject, body, outcome) ==
    IF ~EmailConfigured(email_env)
    THEN [subject |-> subject, body |-> body, relay |-> "skipped", raised |-> FALSE]
    ELSE [subject |-> subject, body |-> body, relay |-> outcome,
          raised |-> (outcome # "sent" /\ Propagates(outcome))]

\* faulty variant: the subject names the first provider of the list
AlertSubjectFirst(provider) == [prefix |-> "High API Usage Alert: ", provider |-> providers[1]]

\* f"High API Usage Alert: {provider}"
AlertSubject(provider) == [prefix |-> "High API Usage Alert: ", provider |-> provider]

\* f"Your usage for {provider} has reached {usage}.": {usage} prints the int in decimal
AlertBody(provider, usage) == [provider |-> provider, usage |-> usage.int]

\* faulty variant: >= in place of >
OverThresholdInclusive(v) == v.type = "int" /\ v.int >= Threshold

\* faulty variant: the type test inverted
OverThresholdUntyped(v) == v.type # "int" \/ v.int > Threshold

\* isinstance(usage, int) and usage > 800
OverThreshold(v) == v.type = "int" /\ v.int > Threshold

---------------------------------------------------------------------------
(* main *)

Init ==
    /\ pc = "collect"
    /\ i = 1
    /\ keys_read = <<>>
    /\ usage_data = <<>>
    /\ written = FALSE
    /\ j = 1
    /\ outbox = <<>>
    /\ \E s \in Surroundings : email_env = s.email /\ file = s.file
    /\ fetch_error = None
    /\ prior_file = file

AfterCollect(n) == IF n > Len(providers) THEN "stamp" ELSE "collect"

\* one iteration of the collection loop, key present
CollectFetch ==
    /\ pc = "collect"
    /\ \E api_key \in EnvValues :
        /\ Truthy(api_key)
        /\ \E usage \in fetch_usage(providers[i], api_key) :
            usage_data' = DictSet(usage_data, providers[i], IntVal(usage))
        /\ keys_read' = Append(keys_read, [var |-> ApiKeyVar(providers[i]), value |-> api_key])
    /\ i' = i + 1
    /\ pc' = AfterCollect(i + 1)
    /\ UNCHANGED <<file, written, j, outbox, email_env, fetch_error, prior_file>>

\* one iteration of the collection loop, key unset or empty
CollectDefault ==
    /\ pc = "collect"
    /\ \E api_key \in EnvValues :
        /\ ~Truthy(api_key)
        /\ keys_read' = Append(keys_read, [var |-> ApiKeyVar(providers[i]), value |-> api_key])
    /\ usage_data' = DictSet(usage_data, providers[i], IntVal(0))
    /\ i' = i + 1
    /\ pc' = AfterCollect(i + 1)
    /\ UNCHANGED <<file, written, j, outbox, email_env, fetch_error, prior_file>>

\* usage_data['last_updated'] = datetime.datetime.now().isoformat()
Stamp ==
    /\ pc = "stamp"
    /\ \E now \in Timestamps :
        usage_data' = DictSet(usage_data, "last_updated", StrVal(now))
    /\ pc' = "write"
    /\ UNCHANGED <<i, keys_read, file, written, j, outbox, email_env, fetch_error, prior_file>>

AfterCheck(n) == IF n > Len(usage_data) THEN "done" ELSE "check"

\* makedirs, open and json.dump succeed
WriteFile ==
    /\ pc = "write"
    /\ file' = OpenTruncateWrite(file, JsonDump(usage_data))
    /\ written' = TRUE
    /\ j' = 1
    /\ pc' = AfterCheck(1)
    /\ UNCHANGED <<i, keys_read, usage_data, outbox, email_env, fetch_error, prior_file>>

\* faulty variant: the failure of the write is swallowed and main goes on
WriteFailsSwallowed ==
    /\ pc = "write"
    /\ j' = 1
    /\ pc' = "check"
    /\ UNCHANGED <<i, keys_read, usage_data, file, written, outbox, email_env, fetch_error, prior_file>>

\* makedirs or open raises (unwritable path): nothing catches it, main ends
WriteFails ==
    /\ pc = "write"
    /\ pc' = "crashed"
    /\ UNCHANGED <<i, keys_read, usage_data, file, written, j, outbox, email_env, fetch_error, prior_file>>

\* one iteration of the threshold loop, condition false
CheckSkip ==
    /\ pc = "check"
    /\ ~OverThreshold(usage_data[j].value)
    /\ j' = j + 1
    /\ pc' = AfterCheck(j + 1)
    /\ UNCHANGED <<i, keys_read, usage_data, file, written, outbox, email_env, fetch_error, prior_file>>

\* one iteration of the threshold loop, condition true
CheckNotify ==
    /\ pc = "check"
    /\ OverThreshold(usage_data[j].value)
    /\ \E outcome \in SmtpOutcomes :
        LET provider == usage_data[j].key
            usage    == usage_data[j].value
            call     == send_email_notification(AlertSubject(provider),
                                                AlertBody(provider, usage), outcome)
        IN  /\ outbox' = Append(outbox, call)
            /\ pc' = IF call.raised THEN "crashed" ELSE AfterCheck(j + 1)
    /\ j' = j + 1
    /\ UNCHANGED <<i, keys_read, usage_data, file, written, email_env, fetch_error, prior_file>>

Next ==
    \/ CollectFetch
    \/ CollectDefault
    \/ Stamp
    \/ WriteFile
    \/ WriteFails
    \/ CheckSkip
    \/ CheckNotify

Spec == Init /\ [][Next]_vars

\* main is one synchronous thread: it keeps executing until it returns or dies
FairSpec == Spec /\ WF_vars(Next)

---------------------------------------------------------------------------
(* A fetch_usage that can fail, as the real provider calls would *)

\* fetch_usage raises (network or authentication error); the loop of main has
\* no try/except, so the exception leaves main
FetchRaises ==
    /\ pc = "collect"
    /\ \E api_key \in EnvValues :
        /\ Truthy(api_key)
        /\ keys_read' = Append(keys_read, [var |-> ApiKeyVar(providers[i]), value |-> api_key])
    /\ fetch_error' = Some(providers[i])
    /\ pc' = "crashed"
    /\ UNCHANGED <<i, usage_data, file, written, j, outbox, email_env, prior_file>>

NextFetchFail == Next \/ FetchRaises

SpecFetchFail == Init /\ [][NextFetchFail]_vars

---------------------------------------------------------------------------
(* Properties *)

ProviderNames == {"openai", "anthropic", "perplexity", "gemini", "huggingface"}

\* d[key]
Lookup(d, key) == d[CHOOSE k \in 1..Len(d) : d[k].key = key].value

\* the document the file holds (the last one, should it hold several)
FileDoc == file[Len(file)]

FileMember(name) == FileDoc[CHOOSE k \in 1..Len(FileDoc) : FileDoc[k].name = name]

\* the providers of the calls made so far, in order
Notified == [k \in 1..Len(outbox) |-> outbox[k].subject.provider]

Calls(p) == Cardinality({k \in 1..Len(outbox) : outbox[k].subject.provider = p})

\* the keys of usage_data whose value is an int above 800, in dict order
IsHigh(item) == item.value.type = "int" /\ item.value.int > 800

HighItems == SelectSeq(usage_data, IsHigh)

IsPrefix(s, t) == Len(s) <= Len(t) /\ \A k \in 1..Len(s) : s[k] = t[k]

SmtpErrors == {"connect_error", "login_error", "sendmail_error"}

Falsy(v) == v = <<>> \/ v = <<"">>

\* C1: at the end of the collection loop, every provider whose
\* <PROVIDER>_API_KEY was unset or empty has usage exactly 0, whatever the
\* other providers' keys and fetched values are.
C1_NoKeyGivesZero ==
    i > 5 =>
        \A k \in 1..5 :
            /\ keys_read[k].var = ApiKeyVar(providers[k])
            /\ Falsy(keys_read[k].value) => Lookup(usage_data, providers[k]) = IntVal(0)

C1_Witness ==
    /\ pc = "stamp"
    /\ keys_read[1].value = <<>>
    /\ keys_read[2].value = <<"">>
    /\ \A k \in 3..5 : Lookup(usage_data, providers[k]).int = 801

\* C2: once the file is written, its mapping has exactly the five provider
\* names and last_updated as keys, each once, whatever keys are configured.
C2_OutputKeySet ==
    written =>
        /\ Len(FileDoc) = 6
        /\ {FileDoc[k].name : k \in 1..Len(FileDoc)} = ProviderNames \cup {"last_updated"}

C2_Witness ==
    /\ written
    /\ \E a, b \in 1..5 : Falsy(keys_read[a].value) /\ ~Falsy(keys_read[b].value)
    /\ FileDoc[6].name = "last_updated"

\* C3: in a completed run, send_email_notification was called exactly once
\* for each provider whose usage is > 800 and never for one whose usage
\* is <= 800.
C3_OneCallIffOverThreshold ==
    pc = "done" =>
        \A p \in ProviderNames :
            Calls(p) = IF Lookup(usage_data, p).int > 800 THEN 1 ELSE 0

C3_Witness ==
    /\ pc = "done"
    /\ Lookup(usage_data, "openai").int = 801
    /\ Lookup(usage_data, "anthropic").int = 800
    /\ Lookup(usage_data, "gemini").int = 0
    /\ Calls("openai") = 1
    /\ Calls("anthropic") = 0

EmailVarMissing ==
    Falsy(email_env.EMAIL_SENDER) \/ Falsy(email_env.EMAIL_PASSWORD)
        \/ Falsy(email_env.EMAIL_RECEIVER)

\* C4: with any of EMAIL_SENDER, EMAIL_PASSWORD, EMAIL_RECEIVER unset or
\* empty, no call ever contacts the mail relay, no call raises, and the run
\* goes on: it dies only if the file could not be written, and when it
\* completes every provider above the threshold has had its call.
C4_NoRelayWithoutConfig ==
    EmailVarMissing =>
        /\ \A k \in 1..Len(outbox) : outbox[k].relay = "skipped" /\ ~outbox[k].raised
        /\ pc = "crashed" => ~written
        /\ pc = "done" => Len(outbox) = Len(HighItems)

C4_Witness ==
    /\ EmailVarMissing
    /\ ~Falsy(email_env.EMAIL_SENDER)
    /\ pc = "done"
    /\ Len(outbox) = 5

C6_MailFailureDoesNotAbort ==
    /\ [][pc = "check" => pc' \in {"check", "done"}]_vars
    /\ [](pc = "done" => Notified = [k \in 1..Len(HighItems) |-> HighItems[k].key])
    /\ ((pc = "check") ~> (pc = "done"))

C6_Witness ==
    /\ pc = "done"
    /\ Len(outbox) = 3
    /\ outbox[1].relay = "connect_error"
    /\ outbox[2].relay = "login_error"
    /\ outbox[3].relay = "sendmail_error"

\* C7: after a completed run the file holds exactly the mapping built in
\* that run, whatever it held before.
C7_Overwrite ==
    pc = "done" => file = <<JsonDump(usage_data)>>

C7_Witness ==
    /\ pc = "done"
    /\ prior_file = <<OldDocument>>
    /\ file # prior_file
    /\ FileMember("openai").json.num = 0

\* C8: every notification call comes after the file write, the write comes
\* after all five providers are collected, and a run whose write failed
\* ends with no notification call at all.
C8_WriteBeforeNotify ==
    /\ outbox # <<>> => written
    /\ written => (i > 5 /\ ProviderNames \subseteq Keys(usage_data))
    /\ (pc = "crashed" /\ ~written) => outbox = <<>>
    /\ (pc \in {"check", "done"}) => written

C8_Witness ==
    /\ pc = "crashed"
    /\ ~written
    /\ Len(HighItems) >= 2
    /\ outbox = <<>>

\* C9: last_updated never triggers a notification although the threshold
\* loop visits it: at most five calls, each for a provider name.
C9_TimestampNeverNotified ==
    /\ Len(outbox) <= 5
    /\ \A k \in 1..Len(outbox) :
        /\ outbox[k].subject.provider \in ProviderNames
        /\ outbox[k].body.provider \in ProviderNames
    /\ pc = "done" => (j = 7 /\ usage_data[6].key = "last_updated")

C9_Witness ==
    /\ pc = "done"
    /\ j = 7
    /\ usage_data[6].value.type = "str"
    /\ Len(outbox) = 5

\* the members of the written document that are numbers above 800, in order
IsHighMember(m) == m.json.kind = "number" /\ m.json.num > 800

HighMembers == SelectSeq(FileDoc, IsHighMember)

\* C10: the k-th notification call is about the k-th provider that the
\* written file shows above 800: its subject and body name that provider
\* and its body reports the value the file holds for it.
C10_AlertMatchesFile ==
    outbox # <<>> =>
        /\ written
        /\ Len(outbox) <= Len(HighMembers)
        /\ \A k \in 1..Len(outbox) :
            /\ outbox[k].subject.provider = HighMembers[k].name
            /\ outbox[k].body.provider = HighMembers[k].name
            /\ outbox[k].body.usage = HighMembers[k].json.num

C10_Witness ==
    /\ pc = "done"
    /\ FileMember("openai").json.num = 0
    /\ FileMember("anthropic").json.num = 801
    /\ Len(outbox) = 1
    /\ outbox[1].subject.provider = "anthropic"
    /\ outbox[1].body.usage = 801

====
